---- MODULE Spec2Model ----
(***************************************************************************)
(* Model of the go-redis facade (package redis: Config.go, Redis.go).      *)
(*                                                                         *)
(* The facade (type Client) holds a handle of the wrapped client library   *)
(* and forwards every method to one command of the remote store.  The      *)
(* remote store and the handle are the program's environment; their        *)
(* behaviour is modelled at the place of each call:                        *)
(*   - a call on a closed handle returns the library's ErrClosed and       *)
(*     sends nothing;                                                      *)
(*   - a call while the store is unreachable returns a transport error     *)
(*     and the command does not reach the store;                           *)
(*   - a delivered command has the documented Redis semantics.             *)
(* Time is counted in ticks; a key with a time-to-live of n ticks is       *)
(* removed by the n-th Tick.                                               *)
(***************************************************************************)
EXTENDS Integers, Sequences, FiniteSets, TLC

\* ---------------------------------------------------------------- bounds
MaxTTL == 2
MaxCount == 3
MaxList == 2

\* Keys of the remote store.  Every operation is exercised on the keys of
\* Focus; the remaining key is a bystander that callers only set and delete.
Keys == {"k1", "k2"}
Focus == {"k1"}
\* time.Duration inputs in ticks: -1 is redis.KeepTTL, -2 any other negative
Durations == (-2)..MaxTTL

\* ---------------------------------------------------------------- values
\* A Go value passed as interface{}: its dynamic type t and its content.
StrV(s) == [t |-> "string", s |-> s, n |-> 0]
IntV(n) == [t |-> "int", s |-> "", n |-> n]
ChanV == [t |-> "chan", s |-> "", n |-> 0]
NoVal == [t |-> "none", s |-> "", n |-> 0]
Values == {StrV("a"), IntV(2), ChanV}
Elems == {"a", "b"}

Digits == <<"0", "1", "2", "3", "4", "5", "6", "7", "8", "9">>

RECURSIVE Itoa(_)
\* strconv-style decimal text of a non-negative integer
Itoa(n) == IF n < 10 THEN Digits[n + 1] ELSE Itoa(n \div 10) \o Digits[(n % 10) + 1]

ParseRange == 0..(MaxCount + 1)
IsDecimal(s) == \E n \in ParseRange : Itoa(n) = s
\* strconv.Atoi / the store's integer parse: the value and whether it parsed
Atoi(s) == IF IsDecimal(s)
           THEN [n |-> CHOOSE n \in ParseRange : Itoa(n) = s, ok |-> TRUE]
           ELSE [n |-> 0, ok |-> FALSE]

RECURSIVE Reverse(_)
Reverse(s) == IF s = <<>> THEN <<>> ELSE Reverse(Tail(s)) \o <<Head(s)>>

\* SeqsUpTo(n): every sequence over Elems of length 0..n (the []string inputs)
SeqsUpTo(n) == UNION {[1..m -> Elems] : m \in 0..n}

\* ---------------------------------------------------------------- state
VARIABLES
    env,     \* process environment, fixed for a run: name -> value ("" when unset)
    cfg,     \* the *Config value the caller holds
    dial,    \* redis.Options handed to redis.NewClient by the last NewRedis
    state,   \* facade life cycle: "Disconnected", "Connected", "Closed"
    pinged,  \* whether the connection-time ping of the held handle succeeded
    link,    \* whether the remote store is reachable
    store,   \* remote store: key -> entry
    lw,      \* history: the last event that wrote, deleted or expired each key
    last     \* the last call: its inputs, what it returned, what it found

vars == <<env, cfg, dial, state, pinged, link, store, lw, last>>

\* ---------------------------------------------------------------- remote store
\* An entry of the remote store: kind "none" (absent), "string" or "list";
\* ttl = 0 means no expiration, ttl = n > 0 means n ticks remain.
Absent == [kind |-> "none", s |-> "", l |-> <<>>, ttl |-> 0]
StringEntry(s, ttl) == [kind |-> "string", s |-> s, l |-> <<>>, ttl |-> ttl]
ListEntry(l, ttl) == [kind |-> "list", s |-> "", l |-> l, ttl |-> ttl]

\* How the client writes an interface{} argument on the wire (Set, SetNX value).
AppendArg(v) ==
    CASE v.t = "string" -> [ok |-> TRUE, s |-> v.s]
      [] v.t = "bytes"  -> [ok |-> TRUE, s |-> v.s]
      [] v.t = "int"    -> [ok |-> TRUE, s |-> Itoa(v.n)]
      [] OTHER          -> [ok |-> FALSE, s |-> ""]

\* json.Marshal(value): the JSON text, or an error for an unsupported type
JSONMarshal(v) ==
    CASE v.t = "string" -> [ok |-> TRUE, s |-> "\"" \o v.s \o "\""]
      [] v.t = "int"    -> [ok |-> TRUE, s |-> Itoa(v.n)]
      [] OTHER          -> [ok |-> FALSE, s |-> ""]

\* json.Unmarshal(data, dest) into an interface{} destination
JSONUnmarshal(s) ==
    IF IsDecimal(s) THEN [ok |-> TRUE, v |-> [t |-> "float64", s |-> "", n |-> Atoi(s).n]]
    ELSE IF \E x \in Elems : s = "\"" \o x \o "\""
         THEN [ok |-> TRUE, v |-> StrV(CHOOSE x \in Elems : s = "\"" \o x \o "\"")]
    ELSE [ok |-> FALSE, v |-> NoVal]

\* The time-to-live a SET carries: expiration > 0 is sent as EX/PX, KeepTTL
\* (time.Duration(-1)) as KEEPTTL, anything else sends no option.
SetTTL(e, expiration) ==
    IF expiration > 0 THEN expiration
    ELSE IF expiration = -1 THEN e.ttl
    ELSE 0

\* SET key value [EX ttl | KEEPTTL]
SetCmd(e, s, expiration) == StringEntry(s, SetTTL(e, expiration))

\* SETNX key value / SET key value [EX ttl | KEEPTTL] NX
SetNXCmd(e, s, expiration) ==
    IF expiration < -1 THEN [e |-> e, rb |-> FALSE, err |-> "InvalidExpire"]
    ELSE IF e.kind # "none" THEN [e |-> e, rb |-> FALSE, err |-> "nil"]
    ELSE [e |-> StringEntry(s, SetTTL(e, expiration)), rb |-> TRUE, err |-> "nil"]

\* LPUSH key v1 v2 ...: each value in turn becomes the new head
LPushCmd(e, values) ==
    IF Len(values) = 0 THEN [e |-> e, err |-> "WrongArgs"]
    ELSE IF e.kind = "string" THEN [e |-> e, err |-> "WRONGTYPE"]
    ELSE [e |-> ListEntry(Reverse(values) \o e.l, e.ttl), err |-> "nil"]

\* LRANGE key start stop: inclusive, negative indexes count from the tail
LRangeCmd(e, start, stop) ==
    IF e.kind = "string" THEN [rl |-> <<>>, err |-> "WRONGTYPE"]
    ELSE LET n == Len(e.l)
             s0 == IF start < 0 THEN start + n ELSE start
             s1 == IF s0 < 0 THEN 0 ELSE s0
             e0 == IF stop < 0 THEN stop + n ELSE stop
             e1 == IF e0 >= n THEN n - 1 ELSE e0
         IN  [rl |-> IF s1 > e1 \/ s1 >= n THEN <<>> ELSE SubSeq(e.l, s1 + 1, e1 + 1),
              err |-> "nil"]

\* LPOP key: the head; the key disappears with its last element
LPopCmd(e) ==
    CASE e.kind = "none"   -> [e |-> e, rs |-> "", err |-> "Nil"]
      [] e.kind = "string" -> [e |-> e, rs |-> "", err |-> "WRONGTYPE"]
      [] OTHER -> [e |-> IF Len(e.l) = 1 THEN Absent ELSE ListEntry(Tail(e.l), e.ttl),
                   rs |-> Head(e.l), err |-> "nil"]

\* EXPIRE key seconds: a non-positive timeout deletes the key
ExpireCmd(e, expiration) ==
    IF e.kind = "none" THEN e
    ELSE IF expiration <= 0 THEN Absent
    ELSE [e EXCEPT !.ttl = expiration]

\* TTL key: -2 absent, -1 no expiration, else the remaining time
TTLCmd(e) == IF e.kind = "none" THEN -2 ELSE IF e.ttl = 0 THEN -1 ELSE e.ttl

\* GET key
GetCmd(e) ==
    CASE e.kind = "none" -> [rs |-> "", err |-> "Nil"]
      [] e.kind = "list" -> [rs |-> "", err |-> "WRONGTYPE"]
      [] OTHER           -> [rs |-> e.s, err |-> "nil"]

\* INCR key: an absent key counts as 0; the time-to-live is kept
IncrCmd(e) ==
    CASE e.kind = "none" -> [e |-> StringEntry(Itoa(1), 0), rn |-> 1, err |-> "nil"]
      [] e.kind = "list" -> [e |-> e, rn |-> 0, err |-> "WRONGTYPE"]
      [] OTHER -> IF Atoi(e.s).ok
                  THEN [e |-> StringEntry(Itoa(Atoi(e.s).n + 1), e.ttl),
                        rn |-> Atoi(e.s).n + 1, err |-> "nil"]
                  ELSE [e |-> e, rn |-> 0, err |-> "NotInteger"]

\* EXISTS key: the number of the given keys that exist
ExistsCmd(e) == IF e.kind = "none" THEN 0 ELSE 1

\* ---------------------------------------------------------------- configuration
EnvNames == {"REDIS_HOST", "REDIS_PORT", "REDIS_PASSWORD", "REDIS_DB"}
EnvValues == [REDIS_HOST |-> {"", "h"}, REDIS_PORT |-> {"", "7"},
              REDIS_PASSWORD |-> {"", "pw"}, REDIS_DB |-> {"", "3", "x"}]

\* getEnv(key, defaultValue): an unset or empty variable yields the default
getEnv(key, defaultValue) == IF env[key] = "" THEN defaultValue ELSE env[key]

\* NewConfig(): every field from its environment variable or its default
NewConfig ==
    [Host     |-> getEnv("REDIS_HOST", "localhost"),
     Port     |-> getEnv("REDIS_PORT", "6379"),
     Password |-> getEnv("REDIS_PASSWORD", ""),
     DB       |-> Atoi(getEnv("REDIS_DB", "0")).n]

\* (c *Config) GetAddr()
GetAddr(c) == c.Host \o ":" \o c.Port

\* Config literals a caller may write; an omitted field has Go's zero value
Literals == [Host : {"", "h2"}, Port : {"", "8"}, Password : {"", "pw2"}, DB : {0, 1}]

NoDial == [set |-> FALSE, Addr |-> "", Password |-> "", DB |-> 0]

\* ---------------------------------------------------------------- call records
\* What is observed of a call: the operation and key, the inputs of SetNX,
\* SetJSON, SetList and GetList, the results, the number of library calls made,
\* and the facade state, the reachability of the store and the kind of the key
\* at the time of the call.
Call(op, k) ==
    [op |-> op, key |-> k, val |-> NoVal, vals |-> <<>>, start |-> 0, stop |-> 0,
     err |-> "nil", rs |-> "", rn |-> 0, rb |-> FALSE, rl |-> <<>>, rv |-> NoVal,
     calls |-> 0, was |-> state, up |-> link,
     pre |-> IF k \in Keys THEN store[k].kind ELSE "none"]

\* The last event on a key: what wrote it, with which inputs, and whether the
\* key has expired since.
Wrote(w) == [w |-> w, val |-> NoVal, n |-> 0, vals |-> <<>>, prel |-> <<>>, gone |-> FALSE]
WroteValue(w, v, n) == [Wrote(w) EXCEPT !.val = v, !.n = n]

\* The error of a call that does not reach the store: the handle is closed
\* (the library's ErrClosed), or the store is unreachable.
ClientErr == IF state = "Closed" THEN "ErrClosed" ELSE IF ~link THEN "Transport" ELSE "nil"

\* A library call that fails before the command is sent
Failed(c) ==
    /\ last' = [c EXCEPT !.err = ClientErr, !.calls = 1]
    /\ UNCHANGED <<store, lw>>

HasFacade == state # "Disconnected"
Frame == UNCHANGED <<env, cfg, dial, state, pinged, link>>

Init ==
    /\ env = [n \in EnvNames |-> ""]
    /\ cfg = NewConfig
    /\ dial = NoDial
    /\ state = "Disconnected"
    /\ pinged = FALSE
    /\ link = TRUE
    /\ store = [k \in Keys |-> Absent]
    /\ lw = [k \in Keys |-> Wrote("never")]
    /\ last = [Call("Init", "") EXCEPT !.was = "Disconnected"]

\* The configuration runs start in any environment, the caller holding the
\* zero Config of the constructor's documented example (cfg := &Config{}).
InitCfg ==
    /\ env \in [REDIS_HOST : EnvValues.REDIS_HOST, REDIS_PORT : EnvValues.REDIS_PORT,
                REDIS_PASSWORD : EnvValues.REDIS_PASSWORD, REDIS_DB : EnvValues.REDIS_DB]
    /\ cfg = [Host |-> "", Port |-> "", Password |-> "", DB |-> 0]
    /\ dial = NoDial
    /\ state = "Disconnected"
    /\ pinged = FALSE
    /\ link = TRUE
    /\ store = [k \in Keys |-> Absent]
    /\ lw = [k \in Keys |-> Wrote("never")]
    /\ last = [Call("Init", "") EXCEPT !.was = "Disconnected"]

\* ---------------------------------------------------------------- operations
PingIgnored(pingOk) == "Connected"

\* The facade state NewRedis leaves: a facade only when the ping succeeded
PingChecked(pingOk) == IF pingOk THEN "Connected" ELSE "Disconnected"

\* NewRedis(cfg): build the handle from cfg as given, ping, fail fast
NewRedis ==
    /\ state # "Connected"
    /\ dial' = [set |-> TRUE, Addr |-> GetAddr(cfg), Password |-> cfg.Password, DB |-> cfg.DB]
    /\ pinged' = link
    /\ state' = PingChecked(link)
    /\ last' = [Call("NewRedis", "") EXCEPT !.err = IF link THEN "nil" ELSE "Transport",
                                            !.calls = 1]
    /\ UNCHANGED <<env, cfg, link, store, lw>>

\* r.Client.Set(ctx, key, value, expiration).Err()
ClientSet(c, k, v, expiration, w) ==
    IF ClientErr # "nil" THEN Failed(c)
    ELSE IF ~AppendArg(v).ok
         THEN /\ last' = [c EXCEPT !.err = "Marshal", !.calls = 1]
              /\ UNCHANGED <<store, lw>>
    ELSE /\ store' = [store EXCEPT ![k] = SetCmd(@, AppendArg(v).s, expiration)]
         /\ lw' = [lw EXCEPT ![k] = w]
         /\ last' = [c EXCEPT !.calls = 1]

SetKeepsTTL(k, v) ==
    /\ HasFacade
    /\ ClientSet(Call("Set", k), k, v, -1, WroteValue("Set", v, 0))
    /\ Frame

Set(k, v) ==
    /\ HasFacade
    /\ ClientSet(Call("Set", k), k, v, 0, WroteValue("Set", v, 0))
    /\ Frame

SetWithExpiration(k, v, expiration) ==
    /\ HasFacade
    /\ ClientSet(Call("SetWithExpiration", k), k, v, expiration, Wrote("SetWithExpiration"))
    /\ Frame

\* RPUSH key v1 v2 ...: each value in turn becomes the new tail
RPushCmd(e, values) ==
    IF Len(values) = 0 THEN [e |-> e, err |-> "WrongArgs"]
    ELSE IF e.kind = "string" THEN [e |-> e, err |-> "WRONGTYPE"]
    ELSE [e |-> ListEntry(e.l \o values, e.ttl), err |-> "nil"]

\* r.Client.LPush(ctx, key, interfaceSlice...).Err()
ClientPush(r, c, k, values) ==
    IF ClientErr # "nil" THEN Failed(c)
    ELSE /\ Len(r.e.l) <= MaxList
         /\ store' = [store EXCEPT ![k] = r.e]
         /\ lw' = IF r.err = "nil"
                  THEN [lw EXCEPT ![k] = [Wrote("SetList") EXCEPT !.vals = values,
                                                                  !.prel = store[k].l]]
                  ELSE lw
         /\ last' = [c EXCEPT !.err = r.err, !.calls = 1]

SetListNoGuard(k, values) ==
    /\ HasFacade
    /\ ClientPush(LPushCmd(store[k], values), [Call("SetList", k) EXCEPT !.vals = values],
                  k, values)
    /\ Frame

SetListRPush(k, values) ==
    /\ HasFacade
    /\ LET c == [Call("SetList", k) EXCEPT !.vals = values] IN
       IF Len(values) = 0
       THEN /\ last' = c
            /\ UNCHANGED <<store, lw>>
       ELSE ClientPush(RPushCmd(store[k], values), c, k, values)
    /\ Frame

SetList(k, values) ==
    /\ HasFacade
    /\ LET c == [Call("SetList", k) EXCEPT !.vals = values] IN
       IF Len(values) = 0
       THEN /\ last' = c
            /\ UNCHANGED <<store, lw>>
       ELSE ClientPush(LPushCmd(store[k], values), c, k, values)
    /\ Frame

GetList(k, start, stop) ==
    /\ HasFacade
    /\ LET c == [Call("GetList", k) EXCEPT !.start = start, !.stop = stop] IN
       IF ClientErr # "nil" THEN Failed(c)
       ELSE LET r == LRangeCmd(store[k], start, stop) IN
            /\ last' = [c EXCEPT !.rl = r.rl, !.err = r.err, !.calls = 1]
            /\ UNCHANGED <<store, lw>>
    /\ Frame

LPop(k) ==
    /\ HasFacade
    /\ LET c == Call("LPop", k) IN
       IF ClientErr # "nil" THEN Failed(c)
       ELSE LET r == LPopCmd(store[k]) IN
            /\ store' = [store EXCEPT ![k] = r.e]
            /\ lw' = IF r.err = "nil"
                     THEN [lw EXCEPT ![k] = Wrote(IF r.e.kind = "none" THEN "deleted" ELSE "LPop")]
                     ELSE lw
            /\ last' = [c EXCEPT !.rs = r.rs, !.err = r.err, !.calls = 1]
    /\ Frame

Expire(k, expiration) ==
    /\ HasFacade
    /\ LET c == Call("Expire", k) IN
       IF ClientErr # "nil" THEN Failed(c)
       ELSE LET e == ExpireCmd(store[k], expiration) IN
            /\ store' = [store EXCEPT ![k] = e]
            /\ lw' = IF store[k].kind = "none" THEN lw
                     ELSE [lw EXCEPT ![k] = Wrote(IF e.kind = "none" THEN "deleted" ELSE "Expire")]
            /\ last' = [c EXCEPT !.calls = 1]
    /\ Frame

\* r.Client.SetNX(ctx, key, value, expiration).Result()
ClientSetNX(r, k, v) ==
    LET c == [Call("SetNX", k) EXCEPT !.val = v] IN
    IF ClientErr # "nil" THEN Failed(c)
    ELSE IF ~AppendArg(v).ok
         THEN /\ last' = [c EXCEPT !.err = "Marshal", !.calls = 1]
              /\ UNCHANGED <<store, lw>>
    ELSE /\ store' = [store EXCEPT ![k] = r.e]
         /\ lw' = IF r.rb THEN [lw EXCEPT ![k] = WroteValue("SetNX", v, 0)] ELSE lw
         /\ last' = [c EXCEPT !.rb = r.rb, !.err = r.err, !.calls = 1]

SetAlwaysCmd(e, s, expiration) == [e |-> SetCmd(e, s, expiration), rb |-> TRUE, err |-> "nil"]

SetNXOverwrites(k, v, expiration) ==
    /\ HasFacade
    /\ ClientSetNX(SetAlwaysCmd(store[k], AppendArg(v).s, expiration), k, v)
    /\ Frame

SetNX(k, v, expiration) ==
    /\ HasFacade
    /\ ClientSetNX(SetNXCmd(store[k], AppendArg(v).s, expiration), k, v)
    /\ Frame

TTL(k) ==
    /\ HasFacade
    /\ LET c == Call("TTL", k) IN
       IF ClientErr # "nil" THEN Failed(c)
       ELSE /\ last' = [c EXCEPT !.rn = TTLCmd(store[k]), !.calls = 1]
            /\ UNCHANGED <<store, lw>>
    /\ Frame

\* r.Client.Get(ctx, key).Result()
ClientGet(r, k) ==
    LET c == Call("Get", k) IN
    IF ClientErr # "nil" THEN Failed(c)
    ELSE /\ last' = [c EXCEPT !.rs = r.rs, !.err = r.err, !.calls = 1]
         /\ UNCHANGED <<store, lw>>

GetEmptyCmd(e) == IF e.kind = "none" THEN [rs |-> "", err |-> "nil"] ELSE GetCmd(e)

GetSwallowsNil(k) ==
    /\ HasFacade
    /\ ClientGet(GetEmptyCmd(store[k]), k)
    /\ Frame

Get(k) ==
    /\ HasFacade
    /\ ClientGet(GetCmd(store[k]), k)
    /\ Frame

\* r.Client.Incr(ctx, key).Result()
ClientIncr(r, k) ==
    LET c == Call("Increment", k) IN
    IF ClientErr # "nil" THEN Failed(c)
    ELSE /\ r.rn <= MaxCount
         /\ store' = [store EXCEPT ![k] = r.e]
         /\ lw' = IF r.err # "nil" THEN lw
                  ELSE IF store[k].kind = "none"
                       THEN [lw EXCEPT ![k] = WroteValue("Increment", NoVal, 1)]
                  ELSE IF lw[k].w = "Increment"
                       THEN [lw EXCEPT ![k].n = @ + 1]
                  ELSE [lw EXCEPT ![k] = Wrote("IncrementOther")]
         /\ last' = [c EXCEPT !.rn = r.rn, !.err = r.err, !.calls = 1]

\* An increment that leaves a key it creates at 0
IncrFromZeroCmd(e) ==
    IF e.kind = "none" THEN [e |-> StringEntry(Itoa(0), 0), rn |-> 0, err |-> "nil"]
    ELSE IncrCmd(e)

IncrementFromZero(k) ==
    /\ HasFacade
    /\ ClientIncr(IncrFromZeroCmd(store[k]), k)
    /\ Frame

Increment(k) ==
    /\ HasFacade
    /\ ClientIncr(IncrCmd(store[k]), k)
    /\ Frame

Delete(k) ==
    /\ HasFacade
    /\ LET c == Call("Delete", k) IN
       IF ClientErr # "nil" THEN Failed(c)
       ELSE /\ store' = [store EXCEPT ![k] = Absent]
            /\ lw' = [lw EXCEPT ![k] = Wrote("deleted")]
            /\ last' = [c EXCEPT !.calls = 1]
    /\ Frame

Exists(k) ==
    /\ HasFacade
    /\ LET c == Call("Exists", k) IN
       IF ClientErr # "nil" THEN Failed(c)
       ELSE /\ last' = [c EXCEPT !.rb = (ExistsCmd(store[k]) > 0), !.calls = 1]
            /\ UNCHANGED <<store, lw>>
    /\ Frame

SetJSONUnchecked(k, v, expiration) ==
    /\ HasFacade
    /\ ClientSet([Call("SetJSON", k) EXCEPT !.val = v], k,
                 [t |-> "bytes", s |-> JSONMarshal(v).s, n |-> 0], expiration,
                 WroteValue("SetJSON", v, expiration))
    /\ Frame

SetJSON(k, v, expiration) ==
    /\ HasFacade
    /\ LET c == [Call("SetJSON", k) EXCEPT !.val = v]
           data == JSONMarshal(v)
       IN  IF ~data.ok
           THEN /\ last' = [c EXCEPT !.err = "JSONMarshal"]
                /\ UNCHANGED <<store, lw>>
           ELSE ClientSet(c, k, [t |-> "bytes", s |-> data.s, n |-> 0], expiration,
                          WroteValue("SetJSON", v, expiration))
    /\ Frame

GetJSON(k) ==
    /\ HasFacade
    /\ LET c == Call("GetJSON", k) IN
       IF ClientErr # "nil" THEN Failed(c)
       ELSE LET r == GetCmd(store[k]) IN
            /\ last' = IF r.err # "nil" THEN [c EXCEPT !.err = r.err, !.calls = 1]
                       ELSE IF JSONUnmarshal(r.rs).ok
                            THEN [c EXCEPT !.rv = JSONUnmarshal(r.rs).v, !.calls = 1]
                       ELSE [c EXCEPT !.err = "JSONUnmarshal", !.calls = 1]
            /\ UNCHANGED <<store, lw>>
    /\ Frame

\* Close(): the handle is closed by the first call; a repeated call reports it
Close ==
    /\ HasFacade
    /\ state' = "Closed"
    /\ last' = [Call("Close", "") EXCEPT !.err = IF state = "Closed" THEN "ErrClosed" ELSE "nil",
                                         !.calls = 1]
    /\ UNCHANGED <<env, cfg, dial, pinged, link, store, lw>>

\* ---------------------------------------------------------------- environment
\* One tick of the store's clock: every time-to-live shrinks, keys at 0 go
Aged(e) == IF e.ttl = 0 THEN e ELSE IF e.ttl = 1 THEN Absent ELSE [e EXCEPT !.ttl = @ - 1]

Tick ==
    /\ \E k \in Keys : store[k].ttl > 0
    /\ store' = [k \in Keys |-> Aged(store[k])]
    /\ lw' = [k \in Keys |-> IF store[k].ttl = 1 THEN [lw[k] EXCEPT !.gone = TRUE] ELSE lw[k]]
    /\ last' = Call("Tick", "")
    /\ UNCHANGED <<env, cfg, dial, state, pinged, link>>

\* The remote store becomes unreachable, or reachable again
LinkChange ==
    /\ link' = ~link
    /\ UNCHANGED <<env, cfg, dial, state, pinged, store, lw, last>>

\* ---------------------------------------------------------------- callers
\* The caller obtains its configuration from NewConfig()
LoadConfig ==
    /\ cfg' = NewConfig
    /\ last' = Call("NewConfig", "")
    /\ UNCHANGED <<env, dial, state, pinged, link, store, lw>>

\* The caller writes a Config literal
LiteralConfig ==
    \E c \in Literals :
        /\ cfg' = c
        /\ last' = Call("Config", "")
        /\ UNCHANGED <<env, dial, state, pinged, link, store, lw>>

Ranges == {<<0, -1>>, <<0, 0>>, <<-1, -1>>}

Next ==
    \/ NewRedis
    \/ \E k \in Keys, v \in Values : Set(k, v)
    \/ \E k \in Focus, v \in Values, d \in Durations : SetWithExpiration(k, v, d)
    \/ \E k \in Focus, vs \in SeqsUpTo(MaxList) : SetList(k, vs)
    \/ \E k \in Focus, r \in Ranges : GetList(k, r[1], r[2])
    \/ \E k \in Focus : LPop(k)
    \/ \E k \in Focus, d \in Durations : Expire(k, d)
    \/ \E k \in Focus, v \in Values, d \in Durations : SetNX(k, v, d)
    \/ \E k \in Focus : TTL(k)
    \/ \E k \in Focus : Get(k)
    \/ \E k \in Focus : Increment(k)
    \/ \E k \in Keys : Delete(k)
    \/ \E k \in Focus : Exists(k)
    \/ \E k \in Focus, v \in Values, d \in Durations : SetJSON(k, v, d)
    \/ \E k \in Focus : GetJSON(k)
    \/ Close
    \/ Tick
    \/ LinkChange

Spec == Init /\ [][Next]_vars

NextCfg ==
    \/ LoadConfig
    \/ LiteralConfig
    \/ NewRedis

SpecCfg == InitCfg /\ [][NextCfg]_vars

\* ---------------------------------------------------------------- properties
FacadeOps == {"Set", "SetWithExpiration", "SetList", "GetList", "LPop", "Expire", "SetNX",
              "TTL", "Get", "Increment", "Delete", "Exists", "SetJSON", "GetJSON"}

\* The call observed last was a Get whose command reached the store
DeliveredGet == last.op = "Get" /\ last.was = "Connected" /\ last.up

\* C1 as stated: after a successful Set(k, v) with no later write or delete of
\* k, a Get(k) that reaches the store returns no error and the value v itself.
C1_GetReturnsValueSet ==
    (DeliveredGet /\ lw[last.key].w = "Set")
        => (last.err = "nil" /\ StrV(last.rs) = lw[last.key].val)

\* C1 amended: after a successful Set(k, v) with no later write or delete of
\* k, a Get(k) that reaches the store returns no error and the text the
\* client wrote for v: v itself for a string, the decimal digits for an integer.
\* This holds whatever k held before the Set, a time-to-live included.
C1_GetReturnsEncodedValue ==
    (DeliveredGet /\ lw[last.key].w = "Set")
        => /\ last.err = "nil"
           /\ last.rs = AppendArg(lw[last.key].val).s
           /\ (lw[last.key].val.t = "string" => last.rs = lw[last.key].val.s)
           /\ (lw[last.key].val.t = "int" => Atoi(last.rs) = [n |-> lw[last.key].val.n, ok |-> TRUE])

C1_WitnessIntegerRoundTrip ==
    /\ DeliveredGet
    /\ lw[last.key].w = "Set"
    /\ lw[last.key].val = IntV(2)
    /\ last.rs = "2"

\* C2: a call made on a closed facade fails with the use-after-close error
\* and leaves the remote store as it was.
C2_UseAfterClose ==
    [][(state = "Closed" /\ last'.op \in FacadeOps /\ last'.was = "Closed")
          => (last'.err = "ErrClosed" /\ store' = store)]_vars

\* C3: a facade exists only after a successful ping; NewRedis returns no error
\* exactly when its ping succeeded, and a failed ping leaves the caller with
\* the ping error and no facade.
C3_PingBeforeUse ==
    /\ state # "Disconnected" => pinged
    /\ last.op = "NewRedis" => /\ (last.err = "nil") = pinged
                               /\ (last.err = "nil") = last.up
                               /\ last.err # "nil" => state = "Disconnected"
                               /\ last.err = "nil" => state = "Connected"

C3_WitnessPingFailed ==
    /\ last.op = "NewRedis"
    /\ last.err = "Transport"
    /\ ~pinged
    /\ state = "Disconnected"

\* C4: a SetNX that returns without error on an absent key returns true and
\* stores its value; a later SetNX on the key, still present and not written
\* since, returns false and leaves the first value stored.
C4_SetNXOnlyIfAbsent ==
    (last.op = "SetNX" /\ last.err = "nil")
        => /\ last.pre = "none"
                => /\ last.rb
                   /\ store[last.key].kind = "string"
                   /\ store[last.key].s = AppendArg(last.val).s
           /\ last.pre # "none" => ~last.rb
           /\ (last.pre # "none" /\ lw[last.key].w = "SetNX")
                => /\ store[last.key].kind = "string"
                   /\ store[last.key].s = AppendArg(lw[last.key].val).s

C4_WitnessSecondRefused ==
    /\ last.op = "SetNX"
    /\ last.err = "nil"
    /\ last.pre = "string"
    /\ lw[last.key].w = "SetNX"
    /\ last.val # lw[last.key].val
    /\ ~last.rb
    /\ store[last.key].s = AppendArg(lw[last.key].val).s

\* C5: an Increment that returns without error on an absent key returns 1; the
\* n-th consecutive Increment since then, with no other write to the key,
\* returns n; the key holds the decimal text of the value returned.
C5_IncrementCounts ==
    (last.op = "Increment" /\ last.err = "nil")
        => /\ last.pre = "none" => last.rn = 1
           /\ lw[last.key].w = "Increment" => last.rn = lw[last.key].n
           /\ store[last.key].kind = "string"
           /\ store[last.key].s = Itoa(last.rn)

C5_WitnessThird ==
    /\ last.op = "Increment"
    /\ last.err = "nil"
    /\ lw[last.key].w = "Increment"
    /\ lw[last.key].n = 3
    /\ last.rn = 3
    /\ store[last.key].s = "3"

\* C6: SetList with an empty sequence returns no error, makes no library call
\* and leaves every key of the store as it was, whatever the facade's state.
C6_EmptySetListNoOp ==
    [][(last'.op = "SetList" /\ last'.vals = <<>>)
          => (last'.err = "nil" /\ last'.calls = 0 /\ store' = store)]_vars

C6_WitnessEmptyOnAbsent ==
    /\ last.op = "SetList"
    /\ last.vals = <<>>
    /\ last.err = "nil"
    /\ last.was = "Connected"
    /\ last.up
    /\ store[last.key].kind = "none"
    /\ \E k \in Keys : store[k].kind # "none"

\* C7: after a successful SetList(k, values) with non-empty values, and no
\* later write to k nor expiry of k, GetList(k, 0, -1) returns the values in
\* reverse order followed by the elements the list held before; a list that
\* SetList created on an absent key does not expire.
C7_HeadPushedOrder ==
    \A k \in Keys :
        /\ (lw[k].w = "SetList" /\ lw[k].prel = <<>>) => ~lw[k].gone
        /\ (/\ last.op = "GetList" /\ last.key = k /\ last.err = "nil"
            /\ last.start = 0 /\ last.stop = -1
            /\ lw[k].w = "SetList" /\ ~lw[k].gone)
              => /\ last.rl = Reverse(lw[k].vals) \o lw[k].prel
                 /\ Len(last.rl) = Len(lw[k].vals) + Len(lw[k].prel)
                 /\ \A i \in 1..Len(lw[k].vals) :
                        last.rl[i] = lw[k].vals[Len(lw[k].vals) + 1 - i]

C7_WitnessReversed ==
    /\ last.op = "GetList"
    /\ last.err = "nil"
    /\ last.start = 0
    /\ last.stop = -1
    /\ lw[last.key].w = "SetList"
    /\ Len(lw[last.key].vals) >= 2
    /\ lw[last.key].vals[1] # lw[last.key].vals[2]
    /\ last.rl # lw[last.key].vals

\* C8: a Get that reaches the store for a key never set, deleted or expired
\* returns the Nil error; Get returns Nil only then, never when the store
\* was unreachable or the facade closed.
C8_GetNotFound ==
    /\ (DeliveredGet /\ (lw[last.key].w \in {"never", "deleted"} \/ lw[last.key].gone))
            => (last.err = "Nil" /\ last.rs = "")
    /\ (last.op = "Get" /\ last.err = "Nil")
            => (last.up /\ last.was = "Connected" /\ last.pre = "none")
    /\ (last.op = "Get" /\ last.was = "Connected" /\ ~last.up) => last.err = "Transport"

C8_WitnessExpired ==
    /\ DeliveredGet
    /\ lw[last.key].gone
    /\ last.err = "Nil"

\* The value the layered precedence gives a field: the caller's when given
\* (non-zero), else the environment's when set, else the default.
Layered(given, zero, fromEnv) == IF given # zero THEN given ELSE fromEnv

\* C9: NewRedis connects with every field resolved independently by the
\* precedence caller-supplied value > environment variable > default.
C9_LayeredPrecedence ==
    last.op = "NewRedis"
        => /\ dial.Addr = Layered(cfg.Host, "", getEnv("REDIS_HOST", "localhost")) \o ":"
                              \o Layered(cfg.Port, "", getEnv("REDIS_PORT", "6379"))
           /\ dial.Password = Layered(cfg.Password, "", getEnv("REDIS_PASSWORD", ""))
           /\ dial.DB = Layered(cfg.DB, 0, Atoi(getEnv("REDIS_DB", "0")).n)

\* C10: SetJSON whose serialization fails returns that error, makes no
\* library call and leaves every key as it was; otherwise it makes exactly
\* one Set call, which when it succeeds stores the JSON text under the key
\* with the time-to-live the expiration asks for.
C10_SetJSONMarshalsFirst ==
    [][(last'.op = "SetJSON" /\ link' = link)
          => IF ~JSONMarshal(last'.val).ok
             THEN /\ last'.err = "JSONMarshal"
                  /\ last'.calls = 0
                  /\ store' = store
             ELSE /\ last'.calls = 1
                  /\ last'.err \in {"nil", "ErrClosed", "Transport"}
                  /\ last'.err # "nil" => store' = store
                  /\ last'.err = "nil"
                        => /\ lw'[last'.key].w = "SetJSON"
                           /\ store' = [store EXCEPT ![last'.key] =
                                  StringEntry(JSONMarshal(last'.val).s,
                                              SetTTL(store[last'.key], lw'[last'.key].n))]]_vars

C10_WitnessMarshalFailed ==
    /\ last.op = "SetJSON"
    /\ last.err = "JSONMarshal"
    /\ last.calls = 0
    /\ last.was = "Connected"
    /\ last.up
    /\ store[last.key].kind = "string"
    /\ store[last.key].ttl > 0

====
